---- MODULE Spec2Model ----
(***************************************************************************)
(* Model of the upload engine of cloudflare-oss:                           *)
(*   - LargeFileUpload (src/services/fileService.ts), the resumable        *)
(*     multipart upload controller, with its async runUploadLoop           *)
(*     invocations, the requests they have in flight and the callbacks     *)
(*     they deliver;                                                       *)
(*   - App.handleUpload (the orchestrator's enqueue) with the guest limit; *)
(*   - the worker's fetch() route dispatch (src/worker/src/index.ts).      *)
(*                                                                         *)
(* Scheduling: the browser runs one task at a time.  A command (a click    *)
(* handler of the queue panel) or a network event is one task, and the     *)
(* promise continuations it makes runnable (microtasks) run before the     *)
(* next task.  Hence one action = one task: a handler together with every  *)
(* continuation of runUploadLoop up to its next pending await.             *)
(* XMLHttpRequest.abort() fires onabort synchronously, so the rejection    *)
(* of an aborted uploadChunk promise is handled in the task that aborted.  *)
(* fetch() requests (init, complete, abort) are never aborted by the code. *)
(***************************************************************************)
EXTENDS Integers, Sequences, FiniteSets, TLC

\* ---------------------------------------------------------------- bounds
\* Spec: runUploadLoop invocations (calls of start()/resume() that enter the
\* loop) and pause()/cancel() calls
MaxLoops == 2
MaxStops == 1
\* SpecWide: the same, for the executions that need a third invocation
WideLoops == 3
WideStops == 2
\* totalChunks of the largest file
MaxChunks == 2
\* App: files the guest's list can hold, files per handleUpload call, calls
MaxFiles == 11
MaxBatch == 2
MaxUploads == 2
\* PanelSpec: clicks on the buttons of the queue panel
MaxCmds == 2
\* TableSpec: values drawn from crypto.randomUUID() (rows and uploads made)
MaxIds == 3
\* RunSpec: totalChunks of the largest file of an uninterrupted run
MaxRunChunks == 4
\* GuestSpec: values drawn from crypto.randomUUID() by the requests of a guest who
\* already has GUEST_LIMIT - 1 files
MaxGuestIds == 4

\* ------------------------------------------------------ program constants
CHUNK_SIZE == 10 * 1024 * 1024

Null == 0

Statuses == {"pending", "uploading", "paused", "complete", "error", "cancelled"}

\* file.size of the files handed to LargeFileUpload (createUpload sends
\* file.size <= CHUNK_SIZE to SmallFileUpload)
FileSizes == {CHUNK_SIZE + 1, MaxChunks * CHUNK_SIZE}

\* file.size of the files of RunSpec: every size class around the multiples
\* of CHUNK_SIZE, above CHUNK_SIZE
RunSizes ==
    {k * CHUNK_SIZE + d : k \in 1..(MaxRunChunks - 1),
                          d \in {1, 2, CHUNK_SIZE \div 2, CHUNK_SIZE - 1, CHUNK_SIZE}}

\* Math.floor in place of Math.ceil
Ceil_Floor(a, b) == a \div b

\* Math.ceil(a / b) for positive integers
Ceil(a, b) == (a + b - 1) \div b

Min(a, b) == IF a < b THEN a ELSE b

VARIABLES
    this,       \* the fields of the LargeFileUpload object
    loops,      \* the runUploadLoop invocations made so far, in call order
    status,     \* the queue entry's status (last onStatusChange argument)
    progress,   \* the queue entry's progress (last onProgress argument, floor)
    net,        \* the requests the session has issued and the ids the server minted
    obs,        \* how often each callback has been delivered
    hist,       \* bookkeeping for the properties:
                \*   stops      pause()/cancel() calls made
                \*   run        resetState() calls made (restarts after cancel)
                \*   errorPart  the part whose failure is the session's current report
                \*   floor      the part that failed last in this run
                \*   pausedPart the part whose request the last pause() aborted
                \*   aborted    1 once an aborted request's rejection was handled
                \*   completed  a complete request has succeeded
                \*   failedComplete  the complete request (its place in
                \*              net.completeReqs) whose failure is the session's
                \*              current report, when it was made for the
                \*              session's current uploadId and failed with
                \*              every chunk committed
    app,        \* state of the App component (orchestrator)
    wk          \* last request handled by the worker and its response

vars == <<this, loops, status, progress, net, obs, hist, app, wk>>

\* -------------------------------------------------------------- session
\* The state a task of the session works on.
World == [t |-> this, loops |-> loops, status |-> status, progress |-> progress,
          net |-> net, obs |-> obs, hist |-> hist]

Apply(w) ==
    /\ this' = w.t
    /\ loops' = w.loops
    /\ status' = w.status
    /\ progress' = w.progress
    /\ net' = w.net
    /\ obs' = w.obs
    /\ hist' = w.hist

\* new LargeFileUpload(file, ...)
NewSession(size) ==
    [ uploadId |-> Null, key |-> Null, parts |-> <<>>, uploadedBytes |-> 0,
      currentChunkIndex |-> 0, totalChunks |-> Ceil(size, CHUNK_SIZE),
      currentXhr |-> Null, isPaused |-> FALSE, isCancelled |-> FALSE,
      isRunning |-> FALSE, size |-> size ]

DoneLoop == [pc |-> "done", partNumber |-> 0, startByte |-> 0, chunkSize |-> 0,
             uploadId |-> Null, run |-> 0]

\* floor(uploadedBytes / file.size * 100), by long division (no 32-bit overflow)
Percent(b, s) ==
    LET q  == b \div s
        r  == b % s
        d1 == (10 * r) \div s
        r1 == (10 * r) % s
        d2 == (10 * r1) \div s
    IN 100 * q + 10 * d1 + d2

\* this.onStatusChange(s): App stores s in the queue entry
onStatusChange(w, s) ==
    [w EXCEPT !.status = s,
              !.hist.errorPart = 0,
              !.hist.failedComplete = 0,
              !.obs.complete = IF s = "complete" THEN @ + 1 ELSE @,
              !.obs.error = IF s = "error" THEN @ + 1 ELSE @]

\* this.onProgress(percent)
onProgress(w, p) == [w EXCEPT !.progress = p]

\* this.onComplete(file)
onComplete(w) == [w EXCEPT !.obs.onComplete = @ + 1]

EndLoop(w, l) == [w EXCEPT !.loops[l] = DoneLoop]

\* resetState without this.parts = []
resetState_KeepsParts(w) ==
    [w EXCEPT !.t.uploadId = Null, !.t.key = Null,
              !.t.uploadedBytes = 0, !.t.currentChunkIndex = 0,
              !.hist.run = @ + 1, !.hist.floor = 0, !.hist.pausedPart = 0]

resetState(w) ==
    [w EXCEPT !.t.uploadId = Null, !.t.key = Null, !.t.parts = <<>>,
              !.t.uploadedBytes = 0, !.t.currentChunkIndex = 0,
              !.hist.run = @ + 1, !.hist.floor = 0, !.hist.pausedPart = 0]

\* ChunkCatch without its test of isPaused / isCancelled
ChunkCatch_Unguarded(w, l, reason) ==
    LET w1 == onStatusChange([w EXCEPT !.t.isRunning = FALSE], "error")
    IN EndLoop([w1 EXCEPT !.hist.errorPart = w.loops[l].partNumber,
                          !.hist.floor = w.loops[l].partNumber], l)

\* catch of the chunk upload inside the while loop; reason is "abort" for the
\* rejection made by xhr.onabort and "error" for every other rejection
ChunkCatch(w, l, reason) ==
    IF w.t.isPaused \/ w.t.isCancelled
    THEN EndLoop([w EXCEPT !.hist.aborted = IF reason = "abort" THEN 1 ELSE @], l)
    ELSE LET w1 == onStatusChange([w EXCEPT !.t.isRunning = FALSE], "error")
         IN EndLoop([w1 EXCEPT !.hist.errorPart = w.loops[l].partNumber,
                               !.hist.floor = w.loops[l].partNumber], l)

\* catch around the whole of runUploadLoop (init and complete failures)
OuterCatch(w, l) ==
    IF ~w.t.isPaused /\ ~w.t.isCancelled
    THEN LET w1 == onStatusChange([w EXCEPT !.t.isRunning = FALSE], "error")
         IN EndLoop([w1 EXCEPT !.hist.failedComplete =
                                   IF /\ w.loops[l].pc = "complete"
                                      /\ w.loops[l].uploadId = w.t.uploadId
                                      /\ w.t.currentChunkIndex = w.t.totalChunks
                                   THEN CHOOSE i \in DOMAIN w.net.completeReqs :
                                            w.net.completeReqs[i].loop = l
                                   ELSE 0], l)
    ELSE EndLoop(w, l)

\* completeMultipart up to its fetch: the request carries this.parts
completeMultipart(w, l) ==
    [w EXCEPT !.net.completeReqs = Append(@, [uploadId |-> w.t.uploadId, key |-> w.t.key,
                                               parts |-> w.t.parts, loop |-> l]),
              !.loops[l].pc = "complete",
              !.loops[l].uploadId = w.t.uploadId]

\* uploadChunk(chunk, partNumber) up to xhr.send
uploadChunk(w, l, chunkSize, partNumber) ==
    IF w.t.uploadId = Null \/ w.t.key = Null
    THEN ChunkCatch([w EXCEPT !.loops[l].partNumber = partNumber], l, "error")
    ELSE [w EXCEPT !.t.currentXhr = l,
                   !.net.partReqs = Append(@, [uploadId |-> w.t.uploadId, key |-> w.t.key,
                                               partNumber |-> partNumber, loop |-> l,
                                               run |-> w.hist.run]),
                   !.loops[l].pc = "chunk",
                   !.loops[l].partNumber = partNumber,
                   !.loops[l].chunkSize = chunkSize,
                   !.loops[l].uploadId = w.t.uploadId]

\* runUploadLoop from the head of its while loop to the next pending await
ChunkLoop(w, l) ==
    IF w.t.currentChunkIndex < w.t.totalChunks
    THEN IF w.t.isCancelled
         THEN EndLoop([w EXCEPT !.t.isRunning = FALSE], l)
         ELSE IF w.t.isPaused
              THEN EndLoop(onStatusChange([w EXCEPT !.t.isRunning = FALSE], "paused"), l)
              ELSE LET startByte == w.t.currentChunkIndex * CHUNK_SIZE
                       endByte == Min(startByte + CHUNK_SIZE, w.t.size)
                       partNumber == w.t.currentChunkIndex + 1
                   IN uploadChunk([w EXCEPT !.loops[l].startByte = startByte], l,
                                  endByte - startByte, partNumber)
    ELSE completeMultipart(w, l)

\* initMultipart up to its fetch
initMultipart(w, l) ==
    [w EXCEPT !.net.nInit = @ + 1, !.loops[l].pc = "init"]

\* runUploadLoop from its call to the first pending await
runUploadLoop(w) ==
    LET l == Len(w.loops) + 1
        w1 == [w EXCEPT !.loops = Append(@, [DoneLoop EXCEPT !.pc = "new", !.run = w.hist.run]),
                        !.t.isRunning = TRUE, !.hist.pausedPart = 0]
        w2 == onStatusChange(w1, "uploading")
    IN IF w2.t.uploadId = Null THEN initMultipart(w2, l) ELSE ChunkLoop(w2, l)

start(w) ==
    LET w1 == IF w.t.isCancelled THEN resetState(w) ELSE w
    IN IF w1.t.isRunning THEN w1
       ELSE runUploadLoop([w1 EXCEPT !.t.isPaused = FALSE, !.t.isCancelled = FALSE])

resume(w) ==
    IF ~w.t.isPaused /\ w.t.isRunning THEN w
    ELSE IF w.t.isCancelled THEN start(w)
    ELSE runUploadLoop([w EXCEPT !.t.isPaused = FALSE, !.t.isCancelled = FALSE])

\* this.currentXhr.abort(); this.currentXhr = null, and the continuation of the
\* loop that awaited the aborted request (run once the caller has returned)
AbortedLoop(w) ==
    IF w.t.currentXhr # Null /\ w.loops[w.t.currentXhr].pc = "chunk"
    THEN w.t.currentXhr ELSE Null

pause(w) ==
    LET l == AbortedLoop(w)
        w1 == [w EXCEPT !.t.isPaused = TRUE, !.t.isRunning = FALSE, !.t.currentXhr = Null,
                        !.hist.pausedPart = IF l # Null THEN w.loops[l].partNumber ELSE @]
        w2 == onStatusChange(w1, "paused")
    IN IF l # Null THEN ChunkCatch(w2, l, "abort") ELSE w2

cancel(w) ==
    LET l == AbortedLoop(w)
        w1 == [w EXCEPT !.t.isCancelled = TRUE, !.t.isRunning = FALSE, !.t.isPaused = FALSE,
                        !.t.currentXhr = Null,
                        !.hist.pausedPart = 0, !.hist.floor = 0]
        w2 == IF w1.t.uploadId # Null /\ w1.t.key # Null
              THEN [w1 EXCEPT !.net.abortReqs = Append(@, [uploadId |-> w1.t.uploadId,
                                                           key |-> w1.t.key])]
              ELSE w1
        w3 == onStatusChange(w2, "cancelled")
    IN IF l # Null THEN ChunkCatch(w3, l, "abort") ELSE w3

\* ---- continuations of cancel() when its abort request settles
\* fetch(.../upload/abort) fulfilled, with whatever response: nothing reads it
AbortAnswered(w) == [w EXCEPT !.net.abortsSettled = @ + 1]

AbortCatch_Reports(w) ==
    onStatusChange([w EXCEPT !.obs.logged = @ + 1], "error")

\* .catch(console.error) of the abort request
AbortCatch(w) == [w EXCEPT !.obs.logged = @ + 1]

\* fetch(.../upload/abort) rejected
AbortRejected(w) == AbortCatch([w EXCEPT !.net.abortsSettled = @ + 1])

\* ---- continuations of runUploadLoop when a request settles
\* initMultipart: res.ok, body {uploadId, key}; the server mints both
InitResolved(w, l) ==
    LET id == w.net.minted + 1
        w1 == [w EXCEPT !.net.minted = id, !.net.mintedRun = Append(@, w.loops[l].run),
                        !.t.uploadId = id, !.t.key = id]
    IN ChunkLoop(w1, l)

\* xhr.onload with status 200: resolve(res.etag)
PartResolved(w, l) ==
    LET lp == w.loops[l]
        etag == <<lp.uploadId, lp.partNumber>>
        w1 == [w EXCEPT !.t.parts = Append(@, [partNumber |-> lp.partNumber, etag |-> etag]),
                        !.t.uploadedBytes = @ + lp.chunkSize,
                        !.t.currentChunkIndex = @ + 1]
        w2 == onProgress(w1, Percent(w1.t.uploadedBytes, w1.t.size))
    IN ChunkLoop(w2, l)

CompleteResolved_KeepsRunning(w, l) ==
    LET w1 == onStatusChange(onComplete(w), "complete")
    IN EndLoop([w1 EXCEPT !.hist.completed = TRUE], l)

\* completeMultipart: res.ok, then back in runUploadLoop
CompleteResolved(w, l) ==
    LET w1 == onStatusChange(onComplete(w), "complete")
    IN EndLoop([w1 EXCEPT !.t.isRunning = FALSE, !.hist.completed = TRUE], l)

\* ------------------------------------------------------------- actions
\* One action per task of the event loop.  A start()/resume() that calls
\* runUploadLoop needs a free invocation slot.
Fits(w, maxLoops) == Len(w.loops) <= maxLoops

Stop(w) == [w EXCEPT !.hist.stops = @ + 1]

Start(maxLoops) ==
    /\ Fits(start(World), maxLoops)
    /\ Apply(start(World))
    /\ UNCHANGED <<app, wk>>

Resume(maxLoops) ==
    /\ Fits(resume(World), maxLoops)
    /\ Apply(resume(World))
    /\ UNCHANGED <<app, wk>>

Pause(maxStops) ==
    /\ hist.stops < maxStops
    /\ Apply(Stop(pause(World)))
    /\ UNCHANGED <<app, wk>>

Cancel(maxStops) ==
    /\ hist.stops < maxStops
    /\ Apply(Stop(cancel(World)))
    /\ UNCHANGED <<app, wk>>

InitOk ==
    \E l \in DOMAIN loops :
        /\ loops[l].pc = "init"
        /\ Apply(InitResolved(World, l))
        /\ UNCHANGED <<app, wk>>

InitFail ==
    \E l \in DOMAIN loops :
        /\ loops[l].pc = "init"
        /\ Apply(OuterCatch(World, l))
        /\ UNCHANGED <<app, wk>>

PartOk ==
    \E l \in DOMAIN loops :
        /\ loops[l].pc = "chunk"
        /\ Apply(PartResolved(World, l))
        /\ UNCHANGED <<app, wk>>

PartFail ==
    \E l \in DOMAIN loops :
        /\ loops[l].pc = "chunk"
        /\ Apply(ChunkCatch(World, l, "error"))
        /\ UNCHANGED <<app, wk>>

CompleteOk ==
    \E l \in DOMAIN loops :
        /\ loops[l].pc = "complete"
        /\ Apply(CompleteResolved(World, l))
        /\ UNCHANGED <<app, wk>>

CompleteFail ==
    \E l \in DOMAIN loops :
        /\ loops[l].pc = "complete"
        /\ Apply(OuterCatch(World, l))
        /\ UNCHANGED <<app, wk>>

\* an abort request of cancel() is answered by the worker
AbortOk ==
    /\ net.abortsSettled < Len(net.abortReqs)
    /\ Apply(AbortAnswered(World))
    /\ UNCHANGED <<app, wk>>

\* an abort request of cancel() fails in the network
AbortFail ==
    /\ net.abortsSettled < Len(net.abortReqs)
    /\ Apply(AbortRejected(World))
    /\ UNCHANGED <<app, wk>>

SessionInit ==
    /\ loops = <<>>
    /\ status = "pending"
    /\ progress = 0
    /\ net = [nInit |-> 0, minted |-> 0, mintedRun |-> <<>>, partReqs |-> <<>>,
              completeReqs |-> <<>>, abortReqs |-> <<>>, abortsSettled |-> 0]
    /\ obs = [complete |-> 0, error |-> 0, onComplete |-> 0, logged |-> 0]
    /\ hist = [stops |-> 0, run |-> 0, errorPart |-> 0, floor |-> 0, pausedPart |-> 0,
               aborted |-> 0, completed |-> FALSE, failedComplete |-> 0]

\* ------------------------------------------------------------------ App
\* The orchestrator: App's state (user, files, uploadQueue, the
\* uploadControllers map, the toast) and the requests its uploads issue.
GUEST_LIMIT == 10

NewApp ==
    [ user |-> [isGuest |-> TRUE],
      files |-> [uploads |-> 0, directories |-> 0],
      uploadQueue |-> <<>>,
      uploadControllers |-> {},
      toast |-> "",
      requests |-> 0,
      calls |-> 0,
      small |-> [xhr |-> Null, isCancelled |-> FALSE, sent |-> 0, live |-> {},
                 resp |-> <<>>, complete |-> 0, error |-> 0, onComplete |-> 0] ]

\* files.filter(f => f.type !== 'directory').length
guestUsageCount(a) == a.files.uploads

\* the limit test with > in place of >=
isGuestLimitReached_Strict(a) == a.user.isGuest /\ guestUsageCount(a) > GUEST_LIMIT

\* user?.isGuest && guestUsageCount >= 10
isGuestLimitReached(a) == a.user.isGuest /\ guestUsageCount(a) >= GUEST_LIMIT

\* one iteration of filesToUpload.forEach: a queue entry, createUpload,
\* the controller stored under the new id, controller.start()
Enqueue(a) ==
    LET queueId == Len(a.uploadQueue) + 1
    IN [a EXCEPT !.uploadQueue = Append(@, [id |-> queueId, status |-> "uploading"]),
                 !.uploadControllers = @ \cup {queueId},
                 !.requests = @ + 1]

RECURSIVE EnqueueAll(_, _)
EnqueueAll(a, n) == IF n = 0 THEN a ELSE EnqueueAll(Enqueue(a), n - 1)

\* handleUpload(filesToUpload) with n files lying in m folders still to create;
\* foldersOk: whether the createFolder requests succeeded
handleUpload(a, n, m, foldersOk) ==
    IF n = 0 THEN a
    ELSE IF isGuestLimitReached(a)
    THEN [a EXCEPT !.toast = "upload_limit_reached"]
    ELSE LET a1 == [a EXCEPT !.requests = @ + m,
                             !.toast = IF m > 0 /\ ~foldersOk THEN "toast_folder_failed" ELSE @]
         IN EnqueueAll(a1, n)

HandleUpload ==
    /\ app.calls < MaxUploads
    /\ \E n \in 0..MaxBatch, m \in 0..1, foldersOk \in BOOLEAN :
           app' = [handleUpload(app, n, m, foldersOk) EXCEPT !.calls = @ + 1]
    /\ UNCHANGED <<this, loops, status, progress, net, obs, hist, wk>>

\* fetchFiles: setFiles(data) with the list the server answered
FetchFiles ==
    /\ \E u \in 0..MaxFiles, d \in 0..1 :
           app' = [app EXCEPT !.files = [uploads |-> u, directories |-> d]]
    /\ UNCHANGED <<this, loops, status, progress, net, obs, hist, wk>>

\* login / logout of AuthContext: the user changes, the list is fetched anew
SetUser ==
    /\ \E g \in BOOLEAN : app' = [app EXCEPT !.user = [isGuest |-> g]]
    /\ UNCHANGED <<this, loops, status, progress, net, obs, hist, wk>>

\* ---------------------------------------------------------- queue panel
\* The upload queue panel over two uploads made by one handleUpload call:
\* queue entry LargeId is served by the LargeFileUpload session (this),
\* queue entry SmallId by a SmallFileUpload (app.small: its xhr field, its
\* isCancelled flag, and the XMLHttpRequests it has created and has in flight).
LargeId == 1
SmallId == 2
UnknownId == 3
PanelIds == {LargeId, SmallId, UnknownId}

\* the status callback given to createUpload for queue entry queueId, with any
\* entry in place of the one whose id is queueId
StatusCallback_AnyEntry(a, queueId, s) ==
    [a EXCEPT !.uploadQueue = [i \in DOMAIN @ |-> [@[i] EXCEPT !.status = s]],
              !.requests = IF s = "complete" THEN @ + 1 ELSE @]

\* (status, err) => { setUploadQueue(prev => prev.map(u => u.id === queueId ?
\* {...u, status} : u)); if (status === 'complete') fetchFiles(); }
StatusCallback(a, queueId, s) ==
    [a EXCEPT !.uploadQueue = [i \in DOMAIN @ |->
                                  IF @[i].id = queueId THEN [@[i] EXCEPT !.status = s]
                                  ELSE @[i]],
              !.requests = IF s = "complete" THEN @ + 1 ELSE @]

\* (percent) => setUploadQueue(prev => prev.map(u => u.id === queueId ?
\* {...u, progress: percent} : u))
ProgressCallback(a, queueId, p) ==
    [a EXCEPT !.uploadQueue = [i \in DOMAIN @ |->
                                  IF @[i].id = queueId THEN [@[i] EXCEPT !.progress = p]
                                  ELSE @[i]]]

\* the callbacks a task of the LargeFileUpload session has delivered to App:
\* w0 is the session before the task, w1 after it
Deliver(a, w0, w1) ==
    LET a1 == IF w1.progress # w0.progress
              THEN ProgressCallback(a, LargeId, w1.progress) ELSE a
    IN IF w1.obs.complete > w0.obs.complete \/ w1.status # w0.status
       THEN StatusCallback(a1, LargeId, w1.status)
       ELSE a1

\* ---- SmallFileUpload
Small_start(a) ==
    LET x == a.small.sent + 1
        a1 == [a EXCEPT !.small.isCancelled = FALSE]
        a2 == StatusCallback(a1, SmallId, "uploading")
    IN [a2 EXCEPT !.small.xhr = x, !.small.sent = x, !.small.live = @ \cup {x},
                  !.small.resp = Append(@, "none")]

Small_cancel(a) ==
    LET a1 == [a EXCEPT !.small.isCancelled = TRUE,
                        !.small.live = @ \ {a.small.xhr},
                        !.small.xhr = Null]
    IN StatusCallback(a1, SmallId, "cancelled")

Small_pause(a) == Small_cancel(a)

Small_resume(a) == Small_start([a EXCEPT !.small.isCancelled = FALSE])

\* what the server answers to the request of a SmallFileUpload: a 2xx status
\* with a JSON body, a 2xx status with another body, any other status
Responses == {"valid", "invalid", "fail"}

\* this.onStatusChange(s) of the SmallFileUpload
Small_onStatusChange(a, s) ==
    StatusCallback([a EXCEPT !.small.complete = IF s = "complete" THEN @ + 1 ELSE @,
                             !.small.error = IF s = "error" THEN @ + 1 ELSE @],
                   SmallId, s)

\* xhr.onload of request x, answered with r.  The handler reads the status
\* and the body of this.xhr, which a later start() has replaced; a request
\* that has not been answered has status 0
Small_onload(a, x, r) ==
    LET a1 == [a EXCEPT !.small.live = @ \ {x}, !.small.resp[x] = r]
        cur == a1.small.xhr
    IN IF a1.small.isCancelled THEN a1
       ELSE IF cur # Null /\ a1.small.resp[cur] \in {"valid", "invalid"}
            THEN IF a1.small.resp[cur] = "valid"
                 THEN Small_onStatusChange([a1 EXCEPT !.small.onComplete = @ + 1],
                                           "complete")
                 ELSE Small_onStatusChange(a1, "error")
            ELSE Small_onStatusChange(a1, "error")

\* xhr.onerror of request x
Small_onerror(a, x) ==
    LET a1 == [a EXCEPT !.small.live = @ \ {x}]
    IN IF ~a1.small.isCancelled THEN Small_onStatusChange(a1, "error") ELSE a1

\* ---- the panel's handlers
\* uploadControllers.current.get(id)
Ctrl(a, id) == IF id \in a.uploadControllers THEN id ELSE Null

Ops == {"pause", "resume", "start", "cancel"}

LargeOp(op, w) ==
    CASE op = "pause" -> pause(w)
      [] op = "resume" -> resume(w)
      [] op = "start" -> start(w)
      [] op = "cancel" -> cancel(w)

SmallOp(op, a) ==
    CASE op = "pause" -> Small_pause(a)
      [] op = "resume" -> Small_resume(a)
      [] op = "start" -> Small_start(a)
      [] op = "cancel" -> Small_cancel(a)

Click(a) == [a EXCEPT !.calls = @ + 1]

\* uploadControllers.current.get(id)?.op()
Command(id, op) ==
    /\ app.calls < MaxCmds
    /\ LET c == Ctrl(app, id)
       IN CASE c = LargeId ->
                   /\ Apply(LargeOp(op, World))
                   /\ app' = Click(Deliver(app, World, LargeOp(op, World)))
            [] c = SmallId ->
                   /\ app' = Click(SmallOp(op, app))
                   /\ UNCHANGED <<this, loops, status, progress, net, obs, hist>>
            [] OTHER ->
                   /\ app' = Click(app)
                   /\ UNCHANGED <<this, loops, status, progress, net, obs, hist>>
    /\ UNCHANGED wk

onPause(id) == Command(id, "pause")
onResume(id) == Command(id, "resume")
onRetry(id) == Command(id, "resume")
onRestart(id) == Command(id, "start")
onCancel(id) == Command(id, "cancel")

\* uploadControllers.current.delete(id); setUploadQueue(prev => prev.filter(...))
Forget(a, id) ==
    [a EXCEPT !.uploadControllers = @ \ {id},
              !.uploadQueue = SelectSeq(@, LAMBDA u : u.id # id)]

onRemove(id) ==
    /\ app.calls < MaxCmds
    /\ LET c == Ctrl(app, id)
       IN CASE c = LargeId ->
                   /\ Apply(cancel(World))
                   /\ app' = Click(Forget(Deliver(app, World, cancel(World)), id))
            [] c = SmallId ->
                   /\ app' = Click(Forget(Small_cancel(app), id))
                   /\ UNCHANGED <<this, loops, status, progress, net, obs, hist>>
            [] OTHER ->
                   /\ app' = Click(Forget(app, id))
                   /\ UNCHANGED <<this, loops, status, progress, net, obs, hist>>
    /\ UNCHANGED wk

onClearCompleted ==
    /\ app.calls < MaxCmds
    /\ app' = Click([app EXCEPT !.uploadQueue =
                        SelectSeq(@, LAMBDA u : u.status \notin {"complete", "cancelled"})])
    /\ UNCHANGED <<this, loops, status, progress, net, obs, hist, wk>>

\* handleUpload([large, small]): per file a queue entry, the controller stored
\* under its id, controller.start()
PanelUpload ==
    /\ Len(loops) = 0
    /\ app.small.sent = 0
    /\ Apply(start(World))
    /\ LET a1 == [app EXCEPT !.uploadQueue =
                      <<[id |-> LargeId, status |-> "pending", progress |-> 0],
                        [id |-> SmallId, status |-> "pending", progress |-> 0]>>,
                      !.uploadControllers = {LargeId, SmallId}]
       IN app' = Small_start(Deliver(a1, World, start(World)))
    /\ UNCHANGED wk

\* a request of the LargeFileUpload session settles
Settle(w, l, ok) ==
    CASE w.loops[l].pc = "init" -> IF ok THEN InitResolved(w, l) ELSE OuterCatch(w, l)
      [] w.loops[l].pc = "chunk" -> IF ok THEN PartResolved(w, l) ELSE ChunkCatch(w, l, "error")
      [] w.loops[l].pc = "complete" -> IF ok THEN CompleteResolved(w, l) ELSE OuterCatch(w, l)

LargeSettles ==
    \E l \in DOMAIN loops, ok \in BOOLEAN :
        /\ loops[l].pc \in {"init", "chunk", "complete"}
        /\ Apply(Settle(World, l, ok))
        /\ app' = Deliver(app, World, Settle(World, l, ok))
        /\ UNCHANGED wk

\* a request of the SmallFileUpload settles
SmallSettles ==
    /\ \E x \in app.small.live :
           \/ \E r \in Responses : app' = Small_onload(app, x, r)
           \/ app' = Small_onerror(app, x)
    /\ UNCHANGED <<this, loops, status, progress, net, obs, hist, wk>>

\* --------------------------------------------------------------- worker
\* fetch(request, env, ctx) of the worker.  A path is the sequence of its
\* segments: "/" is <<>>, "/api/files/k" is <<"api", "files", "k">>.
Methods == {"GET", "HEAD", "POST", "PUT", "DELETE", "OPTIONS"}

Paths ==
    { <<>>, <<"api">>, <<"api", "files">>, <<"api", "files", "k1">>, <<"api", "files", "">>,
      <<"api", "folders">>, <<"api", "files", "batch-delete">>, <<"api", "files", "move">>,
      <<"api", "upload">>, <<"api", "upload", "init">>, <<"api", "upload", "part">>,
      <<"api", "upload", "complete">>, <<"api", "upload", "abort">>,
      <<"api", "auth", "register">>, <<"api", "auth", "login">>, <<"favicon.ico">> }

Requests ==
    [method : Methods, path : Paths, userId : {Null, 1}, userType : {"guest", "user"},
     bindings : BOOLEAN]

\* path.startsWith('/api/files/')
StartsWithApiFiles(path) == Len(path) > 2 /\ SubSeq(path, 1, 2) = <<"api", "files">>

\* the auth routes, tested before the identity headers are read
AuthRoute(r) ==
    IF r.method = "POST" /\ r.path = <<"api", "auth", "register">> THEN "register"
    ELSE IF r.method = "POST" /\ r.path = <<"api", "auth", "login">> THEN "login"
    ELSE "none"

\* the file routes, in the order fetch() tests them
FileRoute(r) ==
    IF r.method = "GET" /\ r.path = <<"api", "files">> THEN "list"
    ELSE IF r.method = "POST" /\ r.path = <<"api", "folders">> THEN "folders"
    ELSE IF r.method = "POST" /\ r.path = <<"api", "files", "batch-delete">> THEN "batch-delete"
    ELSE IF r.method = "POST" /\ r.path = <<"api", "files", "move">> THEN "move"
    ELSE IF r.method = "POST" /\ r.path = <<"api", "upload", "init">> THEN "init"
    ELSE IF r.method = "PUT" /\ r.path = <<"api", "upload", "part">> THEN "part"
    ELSE IF r.method = "POST" /\ r.path = <<"api", "upload", "complete">> THEN "complete"
    ELSE IF r.method = "POST" /\ r.path = <<"api", "upload", "abort">> THEN "abort"
    ELSE IF r.method = "POST" /\ r.path = <<"api", "upload">> THEN "upload"
    ELSE IF r.method = "DELETE" /\ StartsWithApiFiles(r.path) THEN "delete"
    ELSE "none"

\* the statuses the handler of a route returns
HandlerStatuses(route) ==
    CASE route = "register" -> {200, 400, 409, 500}
      [] route = "login" -> {200, 400, 401, 500}
      [] route = "list" -> {200, 500}
      [] route = "folders" -> {200, 400, 500}
      [] route = "batch-delete" -> {200, 400, 500}
      [] route = "move" -> {200, 400, 500}
      [] route = "init" -> {200, 403, 500}
      [] route = "part" -> {200, 500}
      [] route = "complete" -> {200, 500}
      [] route = "abort" -> {200}
      [] route = "upload" -> {200, 400, 403, 500}
      [] route = "delete" -> {200, 400, 500}

\* the statuses fetch() can answer request r with
fetch(r) ==
    IF r.method = "OPTIONS" THEN {200}
    ELSE IF ~r.bindings THEN {500}
    ELSE IF AuthRoute(r) # "none" THEN HandlerStatuses(AuthRoute(r))
    ELSE IF r.userId = Null THEN {401}
    ELSE IF FileRoute(r) # "none" THEN HandlerStatuses(FileRoute(r))
    ELSE {404}

Fetch ==
    /\ \E r \in Requests : \E st \in fetch(r) : wk' = [wk EXCEPT !.req = r, !.status = st]
    /\ UNCHANGED <<this, loops, status, progress, net, obs, hist, app>>

NoRequest == [method |-> "OPTIONS", path |-> <<>>, userId |-> Null, userType |-> "guest",
              bindings |-> TRUE]

\* env.DB (the rows of the files table, in insertion order), env.MY_BUCKET
\* (the keys of its objects and its open multipart uploads) and the values
\* crypto.randomUUID() has returned
NewWorker == [req |-> NoRequest, status |-> 0,
              files |-> <<>>, bucket |-> {}, mpu |-> {}, uuid |-> 0]

\* ------------------------------------------------------- worker: storage
\* A folder path is the sequence of its segments: '/' is <<>>, '/a/' is <<"a">>.
\* An object key `${userId}/${prefix}${leaf}` is a record: owner, the prefix
\* as a path, and the leaf, which is the uuid of a file (with its extension);
\* a folder marker `${userId}/${prefix}${name}/` has the name as the last
\* segment of its path and leaf 0.
Users == {1, 2}
Names == {"a", "b"}
Folders == {<<>>, <<"a">>}

FileKey(userId, folder, uuid) == [owner |-> userId, path |-> folder, leaf |-> uuid]
FolderKey(userId, parent, name) == [owner |-> userId, path |-> Append(parent, name), leaf |-> 0]

\* folder LIKE virtualPath + '%'
IsPrefix(p, q) == Len(p) <= Len(q) /\ SubSeq(q, 1, Len(p)) = p

Respond(s, st) == [s EXCEPT !.status = st]

\* INSERT INTO files (...) VALUES (...)
Insert(s, row) == [s EXCEPT !.files = Append(@, row)]

\* SELECT COUNT(*) FROM files WHERE owner_id = ? AND type != "directory"
CountFiles(s, userId) ==
    Cardinality({i \in DOMAIN s.files :
                    s.files[i].owner = userId /\ s.files[i].type # "directory"})

\* POST /api/folders
createFolder(s, userId, name, parent) ==
    IF name = "" THEN Respond(s, 400)
    ELSE LET id == s.uuid + 1
             r2Key == FolderKey(userId, parent, name)
             s1 == [s EXCEPT !.uuid = id, !.bucket = @ \cup {r2Key}]
         IN Respond(Insert(s1, [id |-> id, key |-> r2Key, name |-> name,
                                type |-> "directory", folder |-> parent,
                                owner |-> userId]), 200)

\* POST /api/upload
simpleUpload(s, userId, userType, folder) ==
    IF userType = "guest" /\ CountFiles(s, userId) >= GUEST_LIMIT THEN Respond(s, 403)
    ELSE LET id == s.uuid + 1
             uuid == s.uuid + 2
             key == FileKey(userId, folder, uuid)
             s1 == [s EXCEPT !.uuid = uuid, !.bucket = @ \cup {key}]
         IN Respond(Insert(s1, [id |-> id, key |-> key, name |-> "file",
                                type |-> "file", folder |-> folder,
                                owner |-> userId]), 200)

\* env.MY_BUCKET.createMultipartUpload(key, ...)
createMultipartUpload(s, uploadId, key) ==
    [s EXCEPT !.mpu = @ \cup {[uploadId |-> uploadId, key |-> key]}]

\* POST /api/upload/init; the uploadId R2 returns is modelled by the uuid
uploadInit(s, userId, userType, folder) ==
    IF userType = "guest" /\ CountFiles(s, userId) >= GUEST_LIMIT THEN Respond(s, 403)
    ELSE LET uuid == s.uuid + 1
             key == FileKey(userId, folder, uuid)
         IN Respond(createMultipartUpload([s EXCEPT !.uuid = uuid], uuid, key), 200)

\* POST /api/upload/complete; multipartUpload.complete(parts) throws unless
\* the multipart upload is open
uploadComplete(s, userId, uploadId, key, folder) ==
    IF uploadId = Null \/ [uploadId |-> uploadId, key |-> key] \notin s.mpu
    THEN Respond(s, 500)
    ELSE LET id == s.uuid + 1
             s1 == [s EXCEPT !.uuid = id,
                             !.mpu = @ \ {[uploadId |-> uploadId, key |-> key]},
                             !.bucket = @ \cup {key}]
         IN Respond(Insert(s1, [id |-> id, key |-> key, name |-> "file",
                                type |-> "file", folder |-> folder,
                                owner |-> userId]), 200)

\* POST /api/upload/abort
uploadAbort(s, uploadId, key) ==
    Respond([s EXCEPT !.mpu = @ \ {[uploadId |-> uploadId, key |-> key]}], 200)

\* the body of the for loop of POST /api/files/move over row i
moveRow(s, i, userId, finalDest) ==
    LET file == s.files[i]
        oldKey == file.key
        newKey == FileKey(userId, finalDest, oldKey.leaf)
    IN IF file.type = "directory" \/ oldKey.leaf = 0 \/ oldKey = newKey
          \/ oldKey \notin s.bucket
       THEN s
       ELSE [s EXCEPT !.bucket = (@ \cup {newKey}) \ {oldKey},
                      !.files[i].folder = finalDest,
                      !.files[i].key = newKey]

RECURSIVE moveRows(_, _, _, _, _)
moveRows(s, i, fileIds, userId, finalDest) ==
    IF i > Len(s.files) THEN s
    ELSE IF s.files[i].id \in fileIds /\ s.files[i].owner = userId
         THEN moveRows(moveRow(s, i, userId, finalDest), i + 1, fileIds, userId, finalDest)
         ELSE moveRows(s, i + 1, fileIds, userId, finalDest)

\* POST /api/files/move
moveFiles(s, userId, fileIds, destination) ==
    IF fileIds = {} THEN Respond(s, 400)
    ELSE Respond(moveRows(s, 1, fileIds, userId, destination), 200)

\* DELETE /api/files/:key
deleteFile(s, userId, key) ==
    LET found == {i \in DOMAIN s.files : s.files[i].key = key /\ s.files[i].owner = userId}
    IN IF found = {} THEN Respond([s EXCEPT !.bucket = @ \ {key}], 200)
       ELSE LET fileRecord == s.files[CHOOSE i \in found : \A j \in found : i <= j]
            IN IF fileRecord.type = "directory"
               THEN LET virtualPath == Append(fileRecord.folder, fileRecord.name)
                        inside(r) == IsPrefix(virtualPath, r.folder) /\ r.owner = userId
                        keysToDelete == {s.files[i].key : i \in {j \in DOMAIN s.files :
                                                                    inside(s.files[j])}}
                                        \cup {key}
                    IN Respond([s EXCEPT !.bucket = @ \ keysToDelete,
                                         !.files = SelectSeq(@, LAMBDA r :
                                             ~((IsPrefix(virtualPath, r.folder) \/ r.key = key)
                                               /\ r.owner = userId))], 200)
               ELSE Respond([s EXCEPT !.bucket = @ \ {key},
                                      !.files = SelectSeq(@, LAMBDA r :
                                          ~(r.key = key /\ r.owner = userId))], 200)

\* ---- one action per request the worker handles
HasIds(n) == wk.uuid + n <= MaxIds

PostFolders ==
    /\ HasIds(1)
    /\ \E userId \in Users, name \in Names \cup {""}, parent \in Folders :
           wk' = createFolder(wk, userId, name, parent)
    /\ UNCHANGED <<this, loops, status, progress, net, obs, hist, app>>

PostUpload ==
    /\ HasIds(2)
    /\ \E userId \in Users, userType \in {"guest", "user"}, folder \in Folders :
           wk' = simpleUpload(wk, userId, userType, folder)
    /\ UNCHANGED <<this, loops, status, progress, net, obs, hist, app>>

PostUploadInit ==
    /\ HasIds(1)
    /\ \E userId \in Users, userType \in {"guest", "user"}, folder \in Folders :
           wk' = uploadInit(wk, userId, userType, folder)
    /\ UNCHANGED <<this, loops, status, progress, net, obs, hist, app>>

\* the client completes (or aborts) an upload with the uploadId and key that
\* init answered; the user id is the X-User-Id header of the complete request
\* and the folder is a field of its body
PostUploadComplete ==
    /\ HasIds(1)
    /\ \E userId \in Users, u \in wk.mpu, folder \in Folders :
           wk' = uploadComplete(wk, userId, u.uploadId, u.key, folder)
    /\ UNCHANGED <<this, loops, status, progress, net, obs, hist, app>>

PostUploadAbort ==
    /\ \E u \in wk.mpu : wk' = uploadAbort(wk, u.uploadId, u.key)
    /\ UNCHANGED <<this, loops, status, progress, net, obs, hist, app>>

PostFilesMove ==
    /\ \E userId \in Users, destination \in Folders :
           \E fileIds \in SUBSET {wk.files[i].id : i \in DOMAIN wk.files} :
               wk' = moveFiles(wk, userId, fileIds, destination)
    /\ UNCHANGED <<this, loops, status, progress, net, obs, hist, app>>

DeleteFiles ==
    /\ \E userId \in Users :
           \E key \in {wk.files[i].key : i \in DOMAIN wk.files} \cup wk.bucket :
               wk' = deleteFile(wk, userId, key)
    /\ UNCHANGED <<this, loops, status, progress, net, obs, hist, app>>

\* ---- the upload requests of one guest, who has uploaded all but one of
\* the files a guest may have
GuestUser == 1

RECURSIVE GuestUploads(_, _)
GuestUploads(s, n) ==
    IF n = 0 THEN s ELSE GuestUploads(simpleUpload(s, GuestUser, "guest", <<>>), n - 1)

NearLimit == GuestUploads(NewWorker, GUEST_LIMIT - 1)

HasGuestIds(n) == wk.uuid + n <= NearLimit.uuid + MaxGuestIds

GuestUpload ==
    /\ HasGuestIds(2)
    /\ \E folder \in Folders : wk' = simpleUpload(wk, GuestUser, "guest", folder)
    /\ UNCHANGED <<this, loops, status, progress, net, obs, hist, app>>

GuestUploadInit ==
    /\ HasGuestIds(1)
    /\ \E folder \in Folders : wk' = uploadInit(wk, GuestUser, "guest", folder)
    /\ UNCHANGED <<this, loops, status, progress, net, obs, hist, app>>

GuestUploadComplete ==
    /\ HasGuestIds(1)
    /\ \E u \in wk.mpu : wk' = uploadComplete(wk, GuestUser, u.uploadId, u.key, u.key.path)
    /\ UNCHANGED <<this, loops, status, progress, net, obs, hist, app>>

\* ---- the requests of the LargeFileUpload session, handled by the worker.
\* The session's user uploads to '/'; the n-th uploadId/key pair the session
\* receives (InitResolved) is upload n under the key SessionKey(n).
SessionUser == 1
SessionKey(n) == FileKey(SessionUser, <<>>, n)

\* the complete request that loop l awaits
CompleteReqOf(l) ==
    net.completeReqs[CHOOSE i \in DOMAIN net.completeReqs :
                        /\ net.completeReqs[i].loop = l
                        /\ \A j \in DOMAIN net.completeReqs :
                               net.completeReqs[j].loop = l => j <= i]

\* what the worker makes of the complete request of loop l
CompleteHandled(l) ==
    uploadComplete(wk, SessionUser, CompleteReqOf(l).uploadId,
                   SessionKey(CompleteReqOf(l).key), <<>>)

\* init answered: the worker has created the multipart upload
InitStored ==
    \E l \in DOMAIN loops :
        /\ loops[l].pc = "init"
        /\ Apply(InitResolved(World, l))
        /\ wk' = Respond(createMultipartUpload(wk, net.minted + 1,
                                               SessionKey(net.minted + 1)), 200)
        /\ UNCHANGED app

\* complete handled with 200 and the response received
CompleteStored ==
    \E l \in DOMAIN loops :
        /\ loops[l].pc = "complete"
        /\ CompleteHandled(l).status = 200
        /\ wk' = CompleteHandled(l)
        /\ Apply(CompleteResolved(World, l))
        /\ UNCHANGED app

\* complete handled with 200 and the response lost on the way: fetch rejects
CompleteLost ==
    \E l \in DOMAIN loops :
        /\ loops[l].pc = "complete"
        /\ CompleteHandled(l).status = 200
        /\ wk' = CompleteHandled(l)
        /\ Apply(OuterCatch(World, l))
        /\ UNCHANGED app

\* complete answered with 500: !res.ok
CompleteRejected ==
    \E l \in DOMAIN loops :
        /\ loops[l].pc = "complete"
        /\ CompleteHandled(l).status = 500
        /\ wk' = CompleteHandled(l)
        /\ Apply(OuterCatch(World, l))
        /\ UNCHANGED app

\* the abort request of a cancel() reaches the worker
AbortStored ==
    \E i \in DOMAIN net.abortReqs :
        /\ [uploadId |-> net.abortReqs[i].uploadId,
            key |-> SessionKey(net.abortReqs[i].key)] \in wk.mpu
        /\ wk' = uploadAbort(wk, net.abortReqs[i].uploadId, SessionKey(net.abortReqs[i].key))
        /\ UNCHANGED <<this, loops, status, progress, net, obs, hist, app>>

\* ------------------------------------------------------- specifications
Init ==
    /\ \E size \in FileSizes : this = NewSession(size)
    /\ SessionInit
    /\ app = NewApp
    /\ wk = NewWorker

Next ==
    \/ Start(MaxLoops)
    \/ Resume(MaxLoops)
    \/ Pause(MaxStops)
    \/ Cancel(MaxStops)
    \/ InitOk
    \/ InitFail
    \/ PartOk
    \/ PartFail
    \/ CompleteOk
    \/ CompleteFail

Spec == Init /\ [][Next]_vars

NextWide ==
    \/ Start(WideLoops)
    \/ Resume(WideLoops)
    \/ Pause(WideStops)
    \/ Cancel(WideStops)
    \/ InitOk
    \/ InitFail
    \/ PartOk
    \/ PartFail
    \/ CompleteOk
    \/ CompleteFail

SpecWide == Init /\ [][NextWide]_vars

AppInit ==
    /\ this = NewSession(CHUNK_SIZE + 1)
    /\ SessionInit
    /\ app = NewApp
    /\ wk = NewWorker

AppNext ==
    \/ HandleUpload
    \/ FetchFiles
    \/ SetUser

AppSpec == AppInit /\ [][AppNext]_vars

WorkerNext == Fetch

WorkerSpec == AppInit /\ [][WorkerNext]_vars

PanelNext ==
    \/ PanelUpload
    \/ \E id \in PanelIds : onPause(id)
    \/ \E id \in PanelIds : onResume(id)
    \/ \E id \in PanelIds : onRetry(id)
    \/ \E id \in PanelIds : onRestart(id)
    \/ \E id \in PanelIds : onCancel(id)
    \/ \E id \in PanelIds : onRemove(id)
    \/ onClearCompleted
    \/ LargeSettles
    \/ SmallSettles

PanelSpec == AppInit /\ [][PanelNext]_vars

TableNext ==
    \/ PostFolders
    \/ PostUpload
    \/ PostUploadInit
    \/ PostUploadComplete
    \/ PostUploadAbort
    \/ PostFilesMove
    \/ DeleteFiles

TableSpec == AppInit /\ [][TableNext]_vars

StoreNext ==
    \/ Start(MaxLoops)
    \/ Resume(MaxLoops)
    \/ Pause(MaxStops)
    \/ Cancel(MaxStops)
    \/ InitStored
    \/ InitFail
    \/ PartOk
    \/ PartFail
    \/ CompleteStored
    \/ CompleteLost
    \/ CompleteRejected
    \/ CompleteFail
    \/ AbortStored

StoreSpec == Init /\ [][StoreNext]_vars

\* an uninterrupted upload: no pause(), no cancel(), every request succeeds
RunInit ==
    /\ \E size \in RunSizes : this = NewSession(size)
    /\ SessionInit
    /\ app = NewApp
    /\ wk = NewWorker

RunNext ==
    \/ Start(MaxLoops)
    \/ InitOk
    \/ PartOk
    \/ CompleteOk

RunSpec == RunInit /\ [][RunNext]_vars

\* the uninterrupted upload when start() is called and every request is
\* answered: a call that is due is made, a request in flight settles
FairRunSpec ==
    /\ RunSpec
    /\ WF_vars(Start(MaxLoops))
    /\ WF_vars(InitOk)
    /\ WF_vars(PartOk)
    /\ WF_vars(CompleteOk)

\* the session with the outcomes of the abort requests of cancel()
CancelNext ==
    \/ Start(MaxLoops)
    \/ Resume(MaxLoops)
    \/ Pause(MaxStops)
    \/ Cancel(MaxStops)
    \/ InitOk
    \/ InitFail
    \/ PartOk
    \/ PartFail
    \/ CompleteOk
    \/ CompleteFail
    \/ AbortOk
    \/ AbortFail

CancelSpec == AppInit /\ [][CancelNext]_vars

\* the worker serving one guest near the limit
GuestInit ==
    /\ this = NewSession(CHUNK_SIZE + 1)
    /\ SessionInit
    /\ app = NewApp
    /\ wk = NearLimit

GuestNext ==
    \/ GuestUpload
    \/ GuestUploadInit
    \/ GuestUploadComplete

GuestSpec == GuestInit /\ [][GuestNext]_vars

\* ---------------------------------------------------------------- claims
PartNumbers == [i \in DOMAIN this.parts |-> this.parts[i].partNumber]
LiveLoops == {l \in DOMAIN loops : loops[l].pc \in {"init", "chunk", "complete"}}
InFlightParts == {l \in DOMAIN loops : loops[l].pc = "chunk"}
Last(q) == q[Len(q)]

\* what a step is
PauseStep == hist'.stops = hist.stops + 1 /\ this'.isPaused
StopStep == hist'.stops = hist.stops + 1
EnterStep == Len(loops') = Len(loops) + 1
PartSent == Len(net'.partReqs) = Len(net.partReqs) + 1

\* C1: the partNumbers in parts are exactly 1..currentChunkIndex in
\* increasing order (no gap, no duplicate, parts.length = currentChunkIndex).
C1_PartsAreOneToIndex ==
    /\ Len(this.parts) = this.currentChunkIndex
    /\ \A i \in DOMAIN this.parts : PartNumbers[i] = i

\* C2: at most one upload loop is active and at most one part-upload request
\* is in flight at any time.
C2_OneLoopOneRequest ==
    /\ Cardinality(LiveLoops) <= 1
    /\ Cardinality(InFlightParts) <= 1

\* C3: a pause() called while a part upload is in flight aborts it (no part
\* upload stays in flight, and uploadedBytes, parts and currentChunkIndex are
\* as before), and the first part request after resume() is for the part that
\* pause() aborted.
C3_PauseStep ==
    /\ (PauseStep /\ InFlightParts # {}) =>
           /\ InFlightParts' = {}
           /\ this'.parts = this.parts
           /\ this'.uploadedBytes = this.uploadedBytes
           /\ this'.currentChunkIndex = this.currentChunkIndex
    /\ (this.isPaused /\ hist.pausedPart # 0 /\ EnterStep) =>
           /\ PartSent
           /\ Last(net'.partReqs).partNumber = hist.pausedPart

C3_PausedChunkIsRetried == [][C3_PauseStep]_vars

\* C4: after cancel() and start() the session is as new: parts holds only
\* parts of this run, every part request of the run carries the uploadId that
\* the run's own init returned, and the run's first part request is part 1.
C4_RestartIsFresh ==
    /\ \A i \in DOMAIN net.partReqs :
           LET r == net.partReqs[i]
           IN r.run >= 1 =>
                  /\ net.mintedRun[r.uploadId] = r.run
                  /\ (\A j \in 1..(i - 1) : net.partReqs[j].run # r.run) => r.partNumber = 1
    /\ hist.run >= 1 =>
           /\ \A i \in DOMAIN this.parts : net.mintedRun[this.parts[i].etag[1]] = hist.run
           /\ this.uploadId # Null => net.mintedRun[this.uploadId] = hist.run

\* C5: when the session reports the failure of part k+1, the resume() or
\* start() that follows sends part k+1 under the same uploadId without a new
\* init, and no part below k+1 is sent again in this run.
C5_RetryStep ==
    /\ (hist.errorPart # 0 /\ EnterStep) =>
           /\ net'.nInit = net.nInit
           /\ PartSent
           /\ Last(net'.partReqs).partNumber = hist.errorPart
           /\ Last(net'.partReqs).uploadId = this.uploadId
    /\ (hist.floor # 0 /\ PartSent) => Last(net'.partReqs).partNumber >= hist.floor

C5_RetrySendsFailedPart == [][C5_RetryStep]_vars

\* C6: once the complete request has succeeded, 'complete' and onComplete are
\* delivered once and no later call enters the upload loop or issues an init,
\* part or complete request.
C6_AfterCompletion ==
    hist.completed =>
        /\ loops' = loops
        /\ net'.nInit = net.nInit
        /\ net'.partReqs = net.partReqs
        /\ net'.completeReqs = net.completeReqs
        /\ obs'.complete = obs.complete
        /\ obs'.onComplete = obs.onComplete

C6_CompletionIsTerminal == [][C6_AfterCompletion]_vars

\* C7: from a pause() or cancel() until the next start()/resume() that enters
\* the loop, no part request is sent and parts does not change.
C7_StoppedStep ==
    ((this.isPaused \/ this.isCancelled) /\ ~EnterStep) =>
        /\ net'.partReqs = net.partReqs
        /\ this'.parts = this.parts

C7_StoppedSessionIsQuiet == [][C7_StoppedStep]_vars

\* C8: the task of a pause() or cancel() call, which handles the rejection of
\* the request it aborts, delivers no 'error' status.
C8_StopStep == StopStep => obs'.error = obs.error

C8_AbortIsNoFailure == [][C8_StopStep]_vars

\* C8 witness: a pause()/cancel() aborted a part upload in flight, its
\* rejection was handled, and no 'error' was delivered.
C8_Witness == hist.aborted = 1 /\ obs.error = 0 /\ status \in {"paused", "cancelled"}

\* C9: handleUpload called for a guest whose file list holds 10 or more
\* non-directory files shows the limit toast, creates no controller and issues
\* no request.
C9_HandleUploadStep ==
    (app'.calls = app.calls + 1 /\ app.user.isGuest /\ guestUsageCount(app) >= GUEST_LIMIT) =>
        /\ app'.uploadControllers = app.uploadControllers
        /\ app'.uploadQueue = app.uploadQueue
        /\ app'.requests = app.requests

C9_GuestLimitRejects == [][C9_HandleUploadStep]_vars

\* C9 witness: a guest with exactly 10 files was shown the limit toast while
\* an earlier handleUpload of the same guest had gone through.
C9_Witness ==
    /\ app.toast = "upload_limit_reached"
    /\ app.user.isGuest
    /\ guestUsageCount(app) = GUEST_LIMIT
    /\ app.calls = 2
    /\ app.requests > 0

\* C10: a request that matches no route is answered with 404.
NoRoute(r) == r.method # "OPTIONS" /\ AuthRoute(r) = "none" /\ FileRoute(r) = "none"

C10_NoRouteIs404 ==
    (wk.status # 0 /\ wk.req.bindings /\ NoRoute(wk.req)) => wk.status = 404

\* steps of the queue panel
RemovesLarge == LargeId \in app.uploadControllers /\ LargeId \notin app'.uploadControllers
SessionVars == <<this, loops, status, progress, net, obs, hist>>

\* C11: removing the entry of a session that is completed, cancelled or failed
\* calls no cancel(): no abort request is sent and no status is notified.
C11_RemoveStep ==
    (RemovesLarge /\ status \in {"complete", "cancelled", "error"}) =>
        /\ net'.abortReqs = net.abortReqs
        /\ status' = status

C11_RemoveCancelsOnlyActive == [][C11_RemoveStep]_vars

\* C12: a pause, resume, retry, restart, cancel or remove for an id that is
\* not in the controller map changes no session and no queue entry, and a
\* callback of a session whose entry was removed (Len(loops) > 0: the
\* uploads were made) changes no queue entry.
C12_Step ==
    /\ \A id \in PanelIds \ app.uploadControllers :
           (onPause(id) \/ onResume(id) \/ onRetry(id) \/ onRestart(id)
               \/ onCancel(id) \/ onRemove(id)) =>
               /\ UNCHANGED SessionVars
               /\ app'.small = app.small
               /\ app'.uploadQueue = app.uploadQueue
               /\ app'.uploadControllers = app.uploadControllers
    /\ (LargeId \notin app.uploadControllers /\ Len(loops) > 0 /\ SessionVars' # SessionVars) =>
           app'.uploadQueue = app.uploadQueue
    /\ (SmallId \notin app.uploadControllers /\ Len(loops) > 0 /\ app'.small # app.small) =>
           app'.uploadQueue = app.uploadQueue

C12_UnknownIdIsNoOp == [][C12_Step]_vars

\* C12 witness: the large session's entry was removed while its complete
\* request was in flight, the 'complete' callback arrived afterwards, another
\* click followed, and the other entry is still queued.
C12_Witness ==
    /\ LargeId \notin app.uploadControllers
    /\ status = "complete"
    /\ app.calls >= 2
    /\ Len(app.uploadQueue) = 1
    /\ app.uploadQueue[1].id = SmallId

\* C13: while the files table holds a record under the session's key, the
\* session is not Failed, Cancelled, Paused or Uploading.
C13_RecordOnlyAfterCompleted ==
    \A i \in DOMAIN wk.files :
        (this.key # Null /\ wk.files[i].key = SessionKey(this.key)) =>
            status \notin {"error", "cancelled", "paused", "uploading"}

\* C14: no two rows of the files table have the same key.
C14_KeysAreUnique ==
    \A i, j \in DOMAIN wk.files : wk.files[i].key = wk.files[j].key => i = j

\* C15: a pause() on a session that is pending, failed, cancelled or completed
\* reports no 'paused' status and changes no field of the session.
C15_PauseStep ==
    (PauseStep /\ status \in {"pending", "error", "cancelled", "complete"}) =>
        /\ status' = status
        /\ this' = this

C15_PauseOnlyFromUploading == [][C15_PauseStep]_vars

\* what a step is, continued
CancelStep == StopStep /\ this'.isCancelled
RestartStep == this.isCancelled /\ ~this'.isCancelled
Cleared(t) == t.parts = <<>> /\ t.currentChunkIndex = 0 /\ t.uploadedBytes = 0

\* C17: when cancel() returns, parts is empty and currentChunkIndex and
\* uploadedBytes are 0.
C17_CancelStep == CancelStep => Cleared(this')

C17_CancelClears == [][C17_CancelStep]_vars

\* C17 amended: the start() or resume() that follows a cancel() clears them:
\* when it returns, parts is empty and currentChunkIndex and uploadedBytes are 0.
C17_RestartStep == RestartStep => Cleared(this')

C17_RestartClears == [][C17_RestartStep]_vars

\* C17 witness: a session cancelled with a committed part was restarted and
\* is cleared, its init request pending.
C17_Witness ==
    /\ hist.run = 1
    /\ Cleared(this)
    /\ \E i \in DOMAIN net.partReqs : net.partReqs[i].run = 0
    /\ \E l \in DOMAIN loops : loops[l].pc = "init" /\ loops[l].run = 1

\* C18: uploadId is replaced only by the reset of a restart after cancel(),
\* and no init request is issued while an init request of the same run is
\* pending or has been answered.
C18_InitStep ==
    /\ (this.uploadId # Null /\ this'.uploadId # this.uploadId) => hist'.run > hist.run
    /\ (net'.nInit > net.nInit) =>
           /\ \A l \in DOMAIN loops : ~(loops[l].pc = "init" /\ loops[l].run = hist'.run)
           /\ \A i \in DOMAIN net.mintedRun : net.mintedRun[i] # hist'.run

C18_OneInitPerRun == [][C18_InitStep]_vars

\* C19: a complete request is issued only when currentChunkIndex equals
\* totalChunks, and its parts are the parts 1..totalChunks in order, each with
\* the etag returned for it under the request's uploadId.
C19_CompleteStep ==
    (Len(net'.completeReqs) > Len(net.completeReqs)) =>
        LET r == Last(net'.completeReqs)
        IN /\ this'.currentChunkIndex = this'.totalChunks
           /\ Len(r.parts) = this'.totalChunks
           /\ \A k \in DOMAIN r.parts :
                  /\ r.parts[k].partNumber = k
                  /\ r.parts[k].etag = <<r.uploadId, k>>

C19_CompleteSendsAllParts == [][C19_CompleteStep]_vars

\* C16: an uninterrupted run over a file of size S > CHUNK_SIZE sends the
\* parts 1..n in order, n being the number with (n-1)*C < S <= n*C; part i
\* covers the bytes from (i-1)*C up to min(i*C, S), so every part has size C
\* except the last, of size S - C*(n-1); the sizes sum to S.
NumChunks(S) == CHOOSE n \in 1..(MaxRunChunks + 1) :
                    (n - 1) * CHUNK_SIZE < S /\ S <= n * CHUNK_SIZE

C16_RunStep ==
    /\ PartSent =>
           LET r == Last(net'.partReqs)
               i == r.partNumber
               lp == loops'[r.loop]
               n == NumChunks(this.size)
           IN /\ i = Len(net'.partReqs)
              /\ i <= n
              /\ lp.startByte = (i - 1) * CHUNK_SIZE
              /\ lp.startByte + lp.chunkSize = Min(i * CHUNK_SIZE, this.size)
              /\ (i < n => lp.chunkSize = CHUNK_SIZE)
              /\ (i = n => lp.chunkSize = this.size - CHUNK_SIZE * (n - 1))
    /\ Len(net'.completeReqs) > 0 =>
           /\ Len(net'.partReqs) = NumChunks(this.size)
           /\ this'.uploadedBytes = this.size

C16_ChunkingIsCorrect == [][C16_RunStep]_vars

\* C16 witness: a file of three chunks whose last chunk is short has been
\* uploaded and completed.
C16_Witness ==
    /\ hist.completed
    /\ Len(net.partReqs) = 3
    /\ this.size % CHUNK_SIZE # 0
    /\ this.uploadedBytes = this.size

\* C20: when the complete request of the session's upload fails with every
\* chunk committed (and the session is neither paused nor cancelled) the
\* session reports 'error' and keeps uploadId and parts; the start() that
\* follows this report issues no init and no part request and re-issues the
\* complete request with the uploadId and the parts list of the failed one.
CompleteFailsStep ==
    /\ obs'.complete = obs.complete
    /\ \E l \in DOMAIN loops : loops[l].pc = "complete" /\ loops'[l].pc = "done"

C20_Step ==
    /\ (CompleteFailsStep /\ ~this.isPaused /\ ~this.isCancelled
          /\ this.currentChunkIndex = this.totalChunks) =>
           /\ status' = "error"
           /\ this'.uploadId = this.uploadId
           /\ this'.parts = this.parts
    /\ (hist.failedComplete # 0 /\ EnterStep) =>
           /\ net'.nInit = net.nInit
           /\ net'.partReqs = net.partReqs
           /\ Len(net'.completeReqs) = Len(net.completeReqs) + 1
           /\ Last(net'.completeReqs).uploadId = net.completeReqs[hist.failedComplete].uploadId
           /\ Last(net'.completeReqs).parts = net.completeReqs[hist.failedComplete].parts

C20_CompleteIsRetried == [][C20_Step]_vars

\* how many init, part and complete requests were sent
RequestCounts(n) == <<n.nInit, Len(n.partReqs), Len(n.completeReqs)>>

\* C21: a failed init, part or complete request of a session that is neither
\* paused nor cancelled delivers exactly one 'error', leaves isRunning false
\* and currentChunkIndex as it was, and sends nothing; and from an 'error'
\* until the next start()/resume() that enters the loop no request is sent.
C21_Step ==
    /\ \A l \in LiveLoops :
           (~this.isPaused /\ ~this.isCancelled /\ World' = Settle(World, l, FALSE)) =>
               /\ obs'.error = obs.error + 1
               /\ ~this'.isRunning
               /\ this'.currentChunkIndex = this.currentChunkIndex
               /\ RequestCounts(net') = RequestCounts(net)
    /\ (status = "error" /\ ~EnterStep) => RequestCounts(net') = RequestCounts(net)

C21_FailureStopsSession == [][C21_Step]_vars

\* the task of a cancel() call
CancelTask == World' = Stop(cancel(World))
AbortSettles == net'.abortsSettled = net.abortsSettled + 1

\* C22: the task of a cancel() call ends with the status 'cancelled' and no
\* 'error', and the task in which its abort request settles, answered or
\* rejected, changes neither the status nor the callbacks delivered nor the
\* session's fields.
C22_Step ==
    /\ CancelTask => (status' = "cancelled" /\ obs'.error = obs.error)
    /\ AbortSettles =>
           /\ status' = status
           /\ obs'.error = obs.error
           /\ obs'.complete = obs.complete
           /\ obs'.onComplete = obs.onComplete
           /\ this' = this
           /\ loops' = loops

C22_CancelIgnoresAbortOutcome == [][C22_Step]_vars

\* C22 witness: the abort request of a cancel() was rejected, which was
\* logged, and the session still shows 'cancelled' with no 'error'.
C22_Witness ==
    /\ obs.logged = 1
    /\ net.abortsSettled = 1
    /\ status = "cancelled"
    /\ obs.error = 0

\* the outcomes a SmallFileUpload has delivered
SmallOutcomes(a) == <<a.small.complete, a.small.onComplete, a.small.error>>

\* C23: the answer to a request of a SmallFileUpload that was not cancelled
\* delivers 'complete' together with onComplete, once, when it is a 2xx
\* status with a valid body, and 'error', once, otherwise; a cancelled session
\* delivers neither.
C23_Step ==
    \A x \in app.small.live :
        /\ (~app.small.isCancelled /\ app' = Small_onload(app, x, "valid")) =>
               SmallOutcomes(app') = <<app.small.complete + 1, app.small.onComplete + 1,
                                       app.small.error>>
        /\ (/\ ~app.small.isCancelled
            /\ \/ app' = Small_onload(app, x, "invalid")
               \/ app' = Small_onload(app, x, "fail")
               \/ app' = Small_onerror(app, x)) =>
               SmallOutcomes(app') = <<app.small.complete, app.small.onComplete,
                                       app.small.error + 1>>
        /\ (/\ app.small.isCancelled
            /\ \/ \E r \in Responses : app' = Small_onload(app, x, r)
               \/ app' = Small_onerror(app, x)) =>
               SmallOutcomes(app') = SmallOutcomes(app)

C23_OneOutcomePerStart == [][C23_Step]_vars

\* C24: while the session is cancelled (from a cancel() until a start() or
\* resume() that clears isCancelled) no 'complete', no 'error' and no
\* onComplete is delivered.
C24_Step ==
    (this.isCancelled /\ this'.isCancelled) =>
        /\ obs'.complete = obs.complete
        /\ obs'.error = obs.error
        /\ obs'.onComplete = obs.onComplete

C24_CancelledIsFinal == [][C24_Step]_vars

\* the uploadIds an abort request was sent for
Aborted == {net.abortReqs[i].uploadId : i \in DOMAIN net.abortReqs}

\* C25: when a cancelled session has come to rest (no request in flight, no
\* loop invocation alive) without any upload completed, an abort request has
\* been sent for every upload the server created for it.
C25_AbandonedUploadsAreAborted ==
    (this.isCancelled /\ LiveLoops = {} /\ ~hist.completed) =>
        \A id \in 1..net.minted : id \in Aborted

\* C26: uploadedBytes is min(currentChunkIndex * CHUNK_SIZE, size), so it
\* never exceeds the file's size, and the progress reported lies in 0..100.
C26_BytesMatchIndex ==
    /\ this.uploadedBytes = Min(this.currentChunkIndex * CHUNK_SIZE, this.size)
    /\ this.uploadedBytes <= this.size
    /\ progress \in 0..100

\* C27: a guest never owns more than GUEST_LIMIT rows that are not
\* directories.
C27_GuestLimitHolds == CountFiles(wk, GuestUser) <= GUEST_LIMIT

\* the keys a DELETE request can name
KnownKeys == {wk.files[i].key : i \in DOMAIN wk.files} \cup wk.bucket

\* C28: a DELETE /api/files/:key of user U leaves every row of another user
\* in the table, and leaves the blob its key names in the bucket.
C28_Step ==
    \A U \in Users, key \in KnownKeys :
        wk' = deleteFile(wk, U, key) =>
            \A i \in DOMAIN wk.files :
                wk.files[i].owner # U =>
                    /\ \E j \in DOMAIN wk'.files : wk'.files[j] = wk.files[i]
                    /\ wk.files[i].key \in wk.bucket => wk.files[i].key \in wk'.bucket

C28_DeleteKeepsOthersFiles == [][C28_Step]_vars

\* C29: the key of every row of the files table begins with the row's
\* owner_id.
C29_KeysBelongToOwner ==
    \A i \in DOMAIN wk.files : wk.files[i].key.owner = wk.files[i].owner

\* the session has reported 'complete' once, after one init request, one
\* part request per chunk and one complete request, and is not running
C30_Done ==
    /\ status = "complete"
    /\ obs.complete = 1
    /\ obs.onComplete = 1
    /\ net.nInit = 1
    /\ Len(net.partReqs) = NumChunks(this.size)
    /\ this.totalChunks = NumChunks(this.size)
    /\ Len(net.completeReqs) = 1
    /\ ~this.isRunning

\* C30: when start() is called, every request succeeds and there is no
\* pause() and no cancel(), the session eventually reports 'complete' after
\* exactly one init request, totalChunks part requests and one complete
\* request, with isRunning false.
C30_EventuallyComplete == <>C30_Done

\* C30 witness: a file of MaxRunChunks chunks has been uploaded that way.
C30_Witness == C30_Done /\ this.totalChunks = MaxRunChunks /\ LiveLoops = {}

TypeOK ==
    /\ this.currentChunkIndex \in Nat
    /\ status \in Statuses

====
